---- MODULE Spec2Model ----
\* Model of ProjectCloudUIExtension (mod-cloud-audiocom/ui): the status-event
\* handler OnCloudStatusChanged, the progress forwarding SetUploadProgress and
\* the wait-to-close loop AllowClosing, all running on the UI thread.  Status
\* events and user clicks are processed whenever the UI event loop runs: between
\* calls, and inside BasicUI::Yield() of the AllowClosing loop.
EXTENDS Integers, Sequences, FiniteSets, TLC

\* ---------------------------------------------------------------- bounds
\* Progress fractions are modelled as n / ProgressDen, n in 0..ProgressDen.
ProgressDen == 3
\* GetSavesCount() answers a value in 0..MaxSaves at each query.
MaxSaves == 1
\* The handler is no longer fired once this many announcements were shown.
MaxAnnounced == 2

\* ------------------------------------------------------- program constants
\* The denominator handed to ProgressDialog::Poll.
PollTotal == 10000

\* ------------------------------------------------------------- data model
ProjectSyncStatus == {"Idle", "Syncing", "Succeeded", "Failed"}

CloudSyncErrorType ==
    {"Authorization", "ProjectLimitReached", "ProjectStorageLimitReached",
     "ProjectVersionConflict", "ProjectNotFound", "Network",
     "DataUploadFailed", "Server", "ClientFailure", "Cancelled"}

ErrorMessages == {"e1"}

NoError == [Type |-> "none", ErrorMessage |-> ""]

CloudSyncError == [Type : CloudSyncErrorType, ErrorMessage : ErrorMessages]

\* CloudStatusChangedMessage: Status, Progress and an optional Error.
CloudStatusChangedMessage ==
    [Status : ProjectSyncStatus,
     Progress : 0..ProgressDen,
     Error : CloudSyncError \cup {NoError}]

HasError(message) == message.Error # NoError

\* The error kinds tried on events that are not Failed: the handler leaves at
\* its early return for all of them alike.
StrayErrorTypes == {"Network"}

\* The status events delivered to the handler.  Progress is read only from a
\* Syncing event, so only those vary in it; the error kind is read only from a
\* Failed event, so only those vary in it.
StatusEvents ==
    {m \in CloudStatusChangedMessage :
        /\ m.Status # "Syncing" => m.Progress = 0
        /\ (m.Status # "Failed" /\ HasError(m)) =>
               m.Error.Type \in StrayErrorTypes}

IsSyncing(message) == message.Status = "Syncing"

\* ---------------------------------------------------------- effect traces
\* Every call the handler makes to a collaborator is recorded, in order, as a
\* pair <<operation, argument>>.
Effect(op, arg) == <<op, arg>>

RECURSIVE CountOp(_, _)
CountOp(s, op) ==
    IF s = <<>> THEN 0
    ELSE (IF Head(s)[1] = op THEN 1 ELSE 0) + CountOp(Tail(s), op)

Ops(s) == [i \in 1..Len(s) |-> s[i][1]]

RecoveryOps ==
    {"UnlinkAccount", "ProjectLimitDialog", "WaitForActionDialog",
     "ResaveLocally", "ProjectVersionConflictDialog", "ReopenProject",
     "NotCloudProjectDialog", "ConnectionIssuesDialog", "ShowErrorDialog",
     "SaveToCloud", "wxLogError"}

PromptOps ==
    {"SyncSuccessDialog", "ProjectLimitDialog", "WaitForActionDialog",
     "ProjectVersionConflictDialog", "NotCloudProjectDialog",
     "ConnectionIssuesDialog", "ShowErrorDialog"}

RecoveryPart(s) == SelectSeq(s, LAMBDA e : e[1] \in RecoveryOps)

\* ------------------------------------------------------------ recovery
ProjectLimitChoices == {"VisitAudioCom", "SaveLocally", "Cancel"}
VersionConflictChoices == {"UseLocal", "UseRemote"}
NotCloudProjectChoices == {"SaveLocally", "SaveRemotely"}

\* The identifiers the prompt opened for this event can answer with.
PromptChoices(message) ==
    CASE message.Status # "Failed" -> {"none"}
      [] message.Error.Type \in {"ProjectLimitReached", "ProjectStorageLimitReached"} ->
            ProjectLimitChoices
      [] message.Error.Type = "ProjectVersionConflict" -> VersionConflictChoices
      [] message.Error.Type = "ProjectNotFound" -> NotCloudProjectChoices
      [] OTHER -> {"none"}

\* The outcomes of ResaveLocally, where the event and the choice lead to it.
ResaveOutcomes(message, choice) ==
    IF /\ message.Status = "Failed"
       /\ \/ /\ message.Error.Type \in {"ProjectLimitReached", "ProjectStorageLimitReached"}
             /\ choice # "VisitAudioCom"
          \/ /\ message.Error.Type = "ProjectNotFound"
             /\ choice = "SaveLocally"
    THEN BOOLEAN
    ELSE {TRUE}

RecoverAuthorization_swapped ==
    << Effect("SaveToCloud", "Normal"), Effect("UnlinkAccount", "") >>

RecoverAuthorization ==
    << Effect("UnlinkAccount", ""), Effect("SaveToCloud", "Normal") >>

RecoverProjectLimit_retryOnSuccess(choice, resaveOk) ==
    << Effect("ProjectLimitDialog", choice) >> \o
    (IF choice = "VisitAudioCom"
     THEN << Effect("WaitForActionDialog", ""), Effect("SaveToCloud", "Normal") >>
     ELSE << Effect("ResaveLocally", resaveOk) >> \o
          (IF resaveOk THEN << Effect("SaveToCloud", "Normal") >> ELSE <<>>))

RecoverProjectLimit(choice, resaveOk) ==
    << Effect("ProjectLimitDialog", choice) >> \o
    (IF choice = "VisitAudioCom"
     THEN << Effect("WaitForActionDialog", ""), Effect("SaveToCloud", "Normal") >>
     ELSE << Effect("ResaveLocally", resaveOk) >> \o
          (IF ~resaveOk THEN << Effect("SaveToCloud", "Normal") >> ELSE <<>>))

RecoverVersionConflict_normal(choice) ==
    << Effect("ProjectVersionConflictDialog", choice) >> \o
    (IF choice = "UseLocal"
     THEN << Effect("SaveToCloud", "Normal") >>
     ELSE << Effect("ReopenProject", "") >>)

RecoverVersionConflict_both(choice) ==
    << Effect("ProjectVersionConflictDialog", choice) >> \o
    (IF choice = "UseLocal"
     THEN << Effect("SaveToCloud", "ForceSave"), Effect("ReopenProject", "") >>
     ELSE << Effect("ReopenProject", "") >>)

RecoverVersionConflict(choice) ==
    << Effect("ProjectVersionConflictDialog", choice) >> \o
    (IF choice = "UseLocal"
     THEN << Effect("SaveToCloud", "ForceSave") >>
     ELSE << Effect("ReopenProject", "") >>)

RecoverProjectNotFound_alwaysSaveNew(choice, resaveOk) ==
    << Effect("NotCloudProjectDialog", choice) >> \o
    (IF choice = "SaveLocally"
     THEN << Effect("ResaveLocally", resaveOk), Effect("SaveToCloud", "SaveNew") >>
     ELSE << Effect("SaveToCloud", "SaveNew") >>)

RecoverProjectNotFound(choice, resaveOk) ==
    << Effect("NotCloudProjectDialog", choice) >> \o
    (IF choice = "SaveLocally"
     THEN << Effect("ResaveLocally", resaveOk) >> \o
          (IF ~resaveOk THEN << Effect("SaveToCloud", "SaveNew") >> ELSE <<>>)
     ELSE << Effect("SaveToCloud", "SaveNew") >>)

RecoverNetwork == << Effect("ConnectionIssuesDialog", "") >>

RecoverGeneric(error) == << Effect("ShowErrorDialog", error.ErrorMessage) >>

\* The switch over error.Type.
RecoveryBranch(error, choice, resaveOk) ==
    CASE error.Type = "Authorization" -> RecoverAuthorization
      [] error.Type \in {"ProjectLimitReached", "ProjectStorageLimitReached"} ->
            RecoverProjectLimit(choice, resaveOk)
      [] error.Type = "ProjectVersionConflict" ->
            RecoverVersionConflict(choice)
      [] error.Type = "ProjectNotFound" ->
            RecoverProjectNotFound(choice, resaveOk)
      [] error.Type = "Network" -> RecoverNetwork
      [] error.Type \in {"DataUploadFailed", "Server", "ClientFailure"} ->
            RecoverGeneric(error)
      [] OTHER -> <<>>

LogRecord(error) == << Effect("wxLogError", error.ErrorMessage) >>

RecoveryEntered_errorOnly(message) == HasError(message)

\* The negation of the early return that precedes the switch.
RecoveryEntered(message) == message.Status = "Failed" /\ HasError(message)

Recovery_logFirst(message, choice, resaveOk) ==
    IF RecoveryEntered(message)
    THEN LogRecord(message.Error)
         \o RecoveryBranch(message.Error, choice, resaveOk)
    ELSE <<>>

Recovery(message, choice, resaveOk) ==
    IF RecoveryEntered(message)
    THEN RecoveryBranch(message.Error, choice, resaveOk)
         \o LogRecord(message.Error)
    ELSE <<>>

\* SaveToCloud is the capability that initiates a sync attempt: the attempt
\* starts where the call is made.
StartsSyncAttempt(e) == e[1] = "SaveToCloud"

\* ------------------------------------------------------ SetUploadProgress
ScaledTick_rounded(n) == (2 * n * PollTotal + ProgressDen) \div (2 * ProgressDen)

\* double -> integer conversion of progress * 10000 for Poll's numerator.
ScaledTick(n) == (n * PollTotal) \div ProgressDen

\* What Poll answers, given the button the user pressed in the indicator.
PollResult(pressed) ==
    CASE pressed = "cancel" -> "Cancelled"
      [] pressed = "stop" -> "Stopped"
      [] OTHER -> "Success"

SetUploadProgress_cancelResetsProgress(progress, dialog, pressed, cancelled) ==
    IF ~dialog
    THEN [mProgress |-> progress, mProgressDialog |-> FALSE, button |-> "none",
          mClosingCancelled |-> cancelled, ret |-> TRUE, effects |-> <<>>]
    ELSE LET result == PollResult(pressed)
             polled == << Effect("Poll", ScaledTick(progress)),
                          Effect("PollResult", result) >>
         IN  IF result = "Cancelled"
             THEN [mProgress |-> 0, mProgressDialog |-> FALSE,
                   button |-> "none", mClosingCancelled |-> TRUE,
                   ret |-> TRUE, effects |-> polled]
             ELSE [mProgress |-> progress, mProgressDialog |-> TRUE,
                   button |-> pressed, mClosingCancelled |-> cancelled,
                   ret |-> (result # "Stopped"), effects |-> polled]

\* The state SetUploadProgress leaves behind, its return value and effects.
SetUploadProgress(progress, dialog, pressed, cancelled) ==
    IF ~dialog
    THEN [mProgress |-> progress, mProgressDialog |-> FALSE, button |-> "none",
          mClosingCancelled |-> cancelled, ret |-> TRUE, effects |-> <<>>]
    ELSE LET result == PollResult(pressed)
             polled == << Effect("Poll", ScaledTick(progress)),
                          Effect("PollResult", result) >>
         IN  IF result = "Cancelled"
             THEN [mProgress |-> progress, mProgressDialog |-> FALSE,
                   button |-> "none", mClosingCancelled |-> TRUE,
                   ret |-> TRUE, effects |-> polled]
             ELSE [mProgress |-> progress, mProgressDialog |-> TRUE,
                   button |-> pressed, mClosingCancelled |-> cancelled,
                   ret |-> (result # "Stopped"), effects |-> polled]

\* ----------------------------------------------------------- AllowClosing
LoopCondition_noSyncTest(inSync, cancelled) == ~cancelled

LoopCondition_noCancelTest(inSync, cancelled) == inSync

\* The condition of the while loop.
LoopCondition(inSync, cancelled) == inSync /\ ~cancelled

AllowClosingResult_negated(inSync, cancelled) == ~inSync \/ cancelled

AllowClosingResult_onlyCancelled(inSync, cancelled) == ~cancelled

\* The expression of the return statement.
AllowClosingResult(inSync, cancelled) == ~inSync \/ ~cancelled

\* ------------------------------------------------------------------ state
VARIABLES
    mInSync,                \* std::atomic<bool> mInSync
    mClosingCancelled,      \* bool mClosingCancelled
    mNeedsFirstSaveDialog,  \* bool mNeedsFirstSaveDialog
    mProgressDialog,        \* TRUE iff mProgressDialog != nullptr
    mProgress,              \* double mProgress, as a numerator over ProgressDen
    button,                 \* the button pressed in the progress indicator
    pc,                     \* position of the AllowClosing caller
    retval,                 \* value of the last return of AllowClosing
    callInSync,             \* mInSync as read by the first loop test of a call
    callCancelled,          \* mClosingCancelled as read by that test
    yielded,                \* the current call has reached BasicUI::Yield()
    created,                \* the current call has made a progress indicator
    lastMessage,            \* the status event handled last
    prevInSync,             \* mInSync before the last event was handled
    effects,                \* collaborator calls made while handling it
    announced,              \* number of SyncSuccessDialogs shown so far
    zeroRead                \* GetSavesCount() has answered 0 at some query

vars ==
    << mInSync, mClosingCancelled, mNeedsFirstSaveDialog, mProgressDialog,
       mProgress, button, pc, retval, callInSync, callCancelled, yielded,
       created,
       lastMessage, prevInSync, effects, announced, zeroRead >>

gateVars == << pc, retval, callInSync, callCancelled, yielded, created >>

handlerLog == << lastMessage, prevInSync, effects, announced, zeroRead >>

NoMessage == [Status |-> "none", Progress |-> 0, Error |-> NoError]

\* The UI event loop is running: no AllowClosing call is active, or the active
\* call is inside BasicUI::Yield().
EventLoopRunning == pc \in {"idle", "yield"}

Init ==
    /\ mInSync = FALSE
    /\ mClosingCancelled = FALSE
    /\ mNeedsFirstSaveDialog = FALSE
    /\ mProgressDialog = FALSE
    /\ mProgress = 0
    /\ button = "none"
    /\ pc = "idle"
    /\ retval = TRUE
    /\ callInSync = FALSE
    /\ callCancelled = FALSE
    /\ yielded = FALSE
    /\ created = FALSE
    /\ lastMessage = NoMessage
    /\ prevInSync = FALSE
    /\ effects = <<>>
    /\ announced = 0
    /\ zeroRead = FALSE

\* ----------------------------------------------------------------- actions
\* One status event is delivered and handled to completion.
OnCloudStatusChanged ==
    /\ EventLoopRunning
    /\ announced < MaxAnnounced
    /\ \E message \in StatusEvents, savesCount \in 0..MaxSaves :
       \E choice \in PromptChoices(message) :
       \E resaveOk \in ResaveOutcomes(message, choice) :
        LET inSync == IsSyncing(message)
            queried == ~mNeedsFirstSaveDialog
            needs == IF queried THEN savesCount = 0 ELSE TRUE
            announce == ~inSync /\ needs
            sup == SetUploadProgress(message.Progress, mProgressDialog,
                                     button, mClosingCancelled)
            recovery == Recovery(message, choice, resaveOk)
        IN  /\ mInSync' = inSync
            /\ prevInSync' = mInSync
            /\ zeroRead' = (zeroRead \/ (queried /\ savesCount = 0))
            /\ IF ~inSync
               THEN /\ mProgressDialog' = FALSE
                    /\ button' = "none"
                    /\ mNeedsFirstSaveDialog' = FALSE
                    /\ announced' = IF announce THEN announced + 1 ELSE announced
                    /\ effects' =
                         (IF announce
                          THEN << Effect("SyncSuccessDialog", "") >>
                          ELSE <<>>) \o recovery
                    /\ UNCHANGED << mProgress, mClosingCancelled >>
               ELSE /\ mProgressDialog' = sup.mProgressDialog
                    /\ button' = sup.button
                    /\ mProgress' = sup.mProgress
                    /\ mClosingCancelled' = sup.mClosingCancelled
                    /\ mNeedsFirstSaveDialog' = needs
                    /\ effects' = sup.effects \o recovery
                    /\ UNCHANGED announced
            /\ lastMessage' = [message EXCEPT !.Progress = 0]
    /\ UNCHANGED gateVars

\* The events the event loop of an open SyncSuccessDialog may deliver.
ReentrantEvents == {m \in StatusEvents : ~HasError(m) /\ m.Progress = 0}

\* A status event whose handler shows SyncSuccessDialog, and a second event
\* that the dialog's event loop delivers to the handler while the dialog is
\* open.  The inner call runs to completion before ShowDialog returns to the
\* outer one, which then leaves at its early return (the outer event carries no
\* error; recovery is followed in OnCloudStatusChanged).
OnCloudStatusChangedReentrant ==
    /\ EventLoopRunning
    /\ announced + 2 <= MaxAnnounced
    /\ \E outer \in {m \in ReentrantEvents : ~IsSyncing(m)},
          inner \in ReentrantEvents,
          outerCount \in 0..MaxSaves,
          innerCount \in 0..MaxSaves :
        LET outerQueried == ~mNeedsFirstSaveDialog
            outerNeeds == IF outerQueried THEN outerCount = 0 ELSE TRUE
            \* the outer call has set mNeedsFirstSaveDialog = false before
            \* ShowDialog, so the inner call queries the counter again
            innerInSync == IsSyncing(inner)
            innerNeeds == innerCount = 0
            innerAnnounce == ~innerInSync /\ innerNeeds
            sup == SetUploadProgress(inner.Progress, FALSE, "none",
                                     mClosingCancelled)
        IN  /\ outerNeeds
            /\ mInSync' = innerInSync
            /\ prevInSync' = FALSE
            /\ zeroRead' = (zeroRead \/ (outerQueried /\ outerCount = 0)
                                     \/ innerCount = 0)
            /\ mProgressDialog' = FALSE
            /\ button' = "none"
            /\ mProgress' = IF innerInSync THEN sup.mProgress ELSE mProgress
            /\ mNeedsFirstSaveDialog' = (innerInSync /\ innerNeeds)
            /\ announced' = announced + 1 + (IF innerAnnounce THEN 1 ELSE 0)
            /\ effects' =
                   << Effect("SyncSuccessDialog", ""),
                      Effect("ReentrantEvent", inner.Status) >> \o
                   (IF innerAnnounce
                    THEN << Effect("SyncSuccessDialog", "") >>
                    ELSE <<>>)
            /\ lastMessage' = inner
    /\ UNCHANGED mClosingCancelled
    /\ UNCHANGED gateVars

\* The user presses Cancel or Stop in the visible progress indicator.
UserClick ==
    /\ EventLoopRunning
    /\ mProgressDialog
    /\ button = "none"
    /\ \E b \in {"cancel", "stop"} : button' = b
    /\ UNCHANGED << mInSync, mClosingCancelled, mNeedsFirstSaveDialog,
                    mProgressDialog, mProgress >>
    /\ UNCHANGED gateVars
    /\ UNCHANGED handlerLog

\* A caller that wants to close the project enters AllowClosing.
AllowClosingCall ==
    /\ pc = "idle"
    /\ pc' = "test"
    /\ callInSync' = mInSync
    /\ callCancelled' = mClosingCancelled
    /\ yielded' = FALSE
    /\ created' = FALSE
    /\ UNCHANGED retval
    /\ UNCHANGED << mInSync, mClosingCancelled, mNeedsFirstSaveDialog,
                    mProgressDialog, mProgress, button >>
    /\ UNCHANGED handlerLog

\* The loop condition holds: make the indicator if there is none, call Yield.
AllowClosingLoop ==
    /\ pc = "test"
    /\ LoopCondition(mInSync, mClosingCancelled)
    /\ mProgressDialog' = TRUE
    /\ created' = (created \/ ~mProgressDialog)
    /\ yielded' = TRUE
    /\ pc' = "yield"
    /\ UNCHANGED << retval, callInSync, callCancelled >>
    /\ UNCHANGED << mInSync, mClosingCancelled, mNeedsFirstSaveDialog,
                    mProgress, button >>
    /\ UNCHANGED handlerLog

\* BasicUI::Yield() returns to the loop.
YieldReturn ==
    /\ pc = "yield"
    /\ pc' = "test"
    /\ UNCHANGED << retval, callInSync, callCancelled, yielded, created >>
    /\ UNCHANGED << mInSync, mClosingCancelled, mNeedsFirstSaveDialog,
                    mProgressDialog, mProgress, button >>
    /\ UNCHANGED handlerLog

\* The loop condition fails: the return statement is evaluated.
AllowClosingReturn ==
    /\ pc = "test"
    /\ ~LoopCondition(mInSync, mClosingCancelled)
    /\ retval' = AllowClosingResult(mInSync, mClosingCancelled)
    /\ pc' = "returned"
    /\ UNCHANGED << callInSync, callCancelled, yielded, created >>
    /\ UNCHANGED << mInSync, mClosingCancelled, mNeedsFirstSaveDialog,
                    mProgressDialog, mProgress, button >>
    /\ UNCHANGED handlerLog

\* The caller has used the answer and control is back in the event loop.
CallerContinues ==
    /\ pc = "returned"
    /\ pc' = "idle"
    /\ UNCHANGED << retval, callInSync, callCancelled, yielded, created >>
    /\ UNCHANGED << mInSync, mClosingCancelled, mNeedsFirstSaveDialog,
                    mProgressDialog, mProgress, button >>
    /\ UNCHANGED handlerLog

Next ==
    \/ OnCloudStatusChanged
    \/ OnCloudStatusChangedReentrant
    \/ UserClick
    \/ AllowClosingCall
    \/ AllowClosingLoop
    \/ YieldReturn
    \/ AllowClosingReturn
    \/ CallerContinues

Spec == Init /\ [][Next]_vars

\* The wait loop and its caller keep running; nothing obliges the sync to
\* deliver a further status event or the user to press a button.
FairSpec ==
    /\ Spec
    /\ WF_vars(AllowClosingLoop)
    /\ WF_vars(YieldReturn)
    /\ WF_vars(AllowClosingReturn)
    /\ WF_vars(CallerContinues)

TypeOK ==
    /\ mInSync \in BOOLEAN
    /\ mClosingCancelled \in BOOLEAN
    /\ mNeedsFirstSaveDialog \in BOOLEAN
    /\ mProgressDialog \in BOOLEAN
    /\ mProgress \in 0..ProgressDen
    /\ button \in {"none", "cancel", "stop"}
    /\ pc \in {"idle", "test", "yield", "returned"}
    /\ retval \in BOOLEAN
    /\ callInSync \in BOOLEAN
    /\ callCancelled \in BOOLEAN
    /\ announced \in 0..MaxAnnounced

\* ------------------------------------------------------------- properties
LastFailedWith(types) ==
    /\ lastMessage.Status = "Failed"
    /\ lastMessage.Error.Type \in types

SaveToCloudModes(s) ==
    LET t == SelectSeq(s, LAMBDA e : e[1] = "SaveToCloud")
    IN  [i \in 1..Len(t) |-> t[i][2]]

BranchMarkers ==
    {"UnlinkAccount", "ProjectLimitDialog", "ProjectVersionConflictDialog",
     "NotCloudProjectDialog", "ConnectionIssuesDialog", "ShowErrorDialog"}

MarkersOf(s) == Ops(SelectSeq(s, LAMBDA e : e[1] \in BranchMarkers))

\* The wait of the current AllowClosing call was cancelled and the sync is
\* still in progress when the call returns.
CancelledWhileSyncing ==
    /\ pc = "returned"
    /\ callInSync
    /\ yielded
    /\ mClosingCancelled
    /\ mInSync

\* C1 (as stated): when AllowClosing is called while syncing and the user
\* cancels the wait while the sync is still in progress, AllowClosing returns
\* true.
C1_CancelAllowsClosing == CancelledWhileSyncing => retval = TRUE

\* C1 (amended): when AllowClosing is called while syncing and the user cancels
\* the wait, AllowClosing returns false if the sync is still in progress when it
\* returns, and true only if syncing has ended by then.
C1_CancelBlocksClosing ==
    (pc = "returned" /\ callInSync /\ yielded /\ mClosingCancelled)
        => retval = ~mInSync

C1_Witness == CancelledWhileSyncing /\ retval = FALSE

\* C2: whatever events were handled during the wait, the value AllowClosing
\* returns equals (not mInSync) or (not mClosingCancelled) at the return; it is
\* false only when still syncing and cancelled, and true when syncing ended
\* during the wait with no cancellation recorded.
C2_ReturnValue ==
    pc = "returned" =>
        /\ retval = (~mInSync \/ ~mClosingCancelled)
        /\ (retval = FALSE => mInSync /\ mClosingCancelled)
        /\ (yielded /\ ~mInSync /\ ~mClosingCancelled => retval = TRUE)

C2_Witness ==
    /\ pc = "returned"
    /\ callInSync
    /\ yielded
    /\ ~mInSync
    /\ ~mClosingCancelled
    /\ retval = TRUE

\* C3: a call of AllowClosing made while mInSync is false never enters the
\* loop body (no progress indicator made, no Yield) and returns true.
C3_NotSyncingReturnsAtOnce ==
    (pc \in {"test", "yield", "returned"} /\ ~callInSync) =>
        /\ pc # "yield"
        /\ ~yielded
        /\ ~created
        /\ ~mProgressDialog
        /\ (pc = "returned" => retval = TRUE)

C3_Witness ==
    /\ pc = "returned"
    /\ ~callInSync
    /\ ~yielded
    /\ ~created
    /\ retval = TRUE
    /\ lastMessage.Status = "Succeeded"

\* C4 (as stated): once the user has pressed Cancel in the wait indicator, the
\* AllowClosing call that is waiting eventually returns, with no further status
\* event needed.
C4_CancelAloneEndsWait ==
    (pc = "yield" /\ button = "cancel") ~> (pc = "returned")

\* C5 (as stated): the first-sync announcement is shown at most once, and only
\* if the save counter was read as zero.
C5_AnnouncedAtMostOnce ==
    /\ announced <= 1
    /\ (announced > 0 => zeroRead)

\* C6 (as stated): the announcement is shown only while handling an event that
\* ends a sync in progress: the event handled before it was Syncing and this
\* one is not.
C6_AnnouncedOnlyWhenSyncEnds ==
    CountOp(effects, "SyncSuccessDialog") > 0 => (prevInSync /\ ~mInSync)

\* C7 (as stated): handling Failed{Cancelled} performs no recovery action,
\* shows no prompt or notice of any kind, and emits exactly one log record.
C7_CancelledIsSilent ==
    LastFailedWith({"Cancelled"}) =>
        /\ \A i \in 1..Len(effects) :
               effects[i][1] \notin (RecoveryOps \ {"wxLogError"}) \cup PromptOps
        /\ CountOp(effects, "wxLogError") = 1

\* C8: handling a Failed event with an error runs exactly one recovery branch
\* (none for Cancelled), requests SaveToCloud at most once, and the mode is
\* Normal for Authorization and the two limit kinds, ForceSave for a version
\* conflict answered 'use local', SaveNew for ProjectNotFound; Network,
\* DataUploadFailed, Server, ClientFailure and Cancelled never request it.
C8_RecoveryTable ==
    (lastMessage.Status = "Failed" /\ HasError(lastMessage)) =>
        LET type == lastMessage.Error.Type
            modes == SaveToCloudModes(effects)
            marks == MarkersOf(effects)
        IN  /\ Len(modes) <= 1
            /\ type = "Authorization" =>
                   marks = << "UnlinkAccount" >> /\ modes = << "Normal" >>
            /\ type \in {"ProjectLimitReached", "ProjectStorageLimitReached"} =>
                   /\ marks = << "ProjectLimitDialog" >>
                   /\ \A i \in 1..Len(modes) : modes[i] = "Normal"
            /\ type = "ProjectVersionConflict" =>
                   /\ marks = << "ProjectVersionConflictDialog" >>
                   /\ \A i \in 1..Len(modes) : modes[i] = "ForceSave"
                   /\ (Effect("ProjectVersionConflictDialog", "UseLocal")
                          \in {effects[i] : i \in 1..Len(effects)}
                       => modes = << "ForceSave" >>)
            /\ type = "ProjectNotFound" =>
                   /\ marks = << "NotCloudProjectDialog" >>
                   /\ \A i \in 1..Len(modes) : modes[i] = "SaveNew"
            /\ type = "Network" =>
                   marks = << "ConnectionIssuesDialog" >> /\ modes = <<>>
            /\ type \in {"DataUploadFailed", "Server", "ClientFailure"} =>
                   marks = << "ShowErrorDialog" >> /\ modes = <<>>
            /\ type = "Cancelled" => marks = <<>> /\ modes = <<>>

C8_Witness ==
    /\ LastFailedWith({"ProjectVersionConflict"})
    /\ SaveToCloudModes(effects) = << "ForceSave" >>

\* C9: handling an event that is not Failed, or a Failed event without an
\* error, makes no recovery call: no unlink, recovery prompt, resave, reopen,
\* SaveToCloud or log record.
C9_RecoveryOnlyOnFailedWithError ==
    ~(lastMessage.Status = "Failed" /\ HasError(lastMessage)) =>
        RecoveryPart(effects) = <<>>

C9_Witness ==
    /\ lastMessage.Status = "Succeeded"
    /\ prevInSync
    /\ CountOp(effects, "SyncSuccessDialog") = 1
    /\ RecoveryPart(effects) = <<>>

\* C10: handling Failed{Authorization} unlinks the account once, then requests
\* one SaveToCloud in Normal mode, then emits one log record, and makes no other
\* recovery call.
C10_AuthorizationFlow ==
    LastFailedWith({"Authorization"}) =>
        RecoveryPart(effects) =
            << Effect("UnlinkAccount", ""),
               Effect("SaveToCloud", "Normal"),
               Effect("wxLogError", lastMessage.Error.ErrorMessage) >>

C10_Witness ==
    /\ LastFailedWith({"Authorization"})
    /\ CountOp(effects, "UnlinkAccount") = 1
    /\ SaveToCloudModes(effects) = << "Normal" >>

EffectSet(s) == {s[i] : i \in 1..Len(s)}

\* The texts written by the log records of the trace.
LoggedText(s) == {e[2] : e \in {x \in EffectSet(s) : x[1] = "wxLogError"}}

\* C11: handling Failed{ProjectVersionConflict} shows the conflict prompt once;
\* on 'use local' SaveToCloud(ForceSave) is requested exactly once and
\* ReopenProject is not called; on any other choice ReopenProject is called
\* exactly once and SaveToCloud is not requested.
C11_ConflictOutcomesExclusive ==
    LastFailedWith({"ProjectVersionConflict"}) =>
        /\ CountOp(effects, "ProjectVersionConflictDialog") = 1
        /\ IF Effect("ProjectVersionConflictDialog", "UseLocal") \in EffectSet(effects)
           THEN /\ SaveToCloudModes(effects) = << "ForceSave" >>
                /\ CountOp(effects, "ReopenProject") = 0
           ELSE /\ SaveToCloudModes(effects) = <<>>
                /\ CountOp(effects, "ReopenProject") = 1

C11_Witness ==
    /\ LastFailedWith({"ProjectVersionConflict"})
    /\ Effect("ProjectVersionConflictDialog", "UseRemote") \in EffectSet(effects)
    /\ CountOp(effects, "ReopenProject") = 1
    /\ SaveToCloudModes(effects) = <<>>

\* C12 (as stated): handling a Failed event with an error emits exactly one log
\* record, after every other call of that event, and the record contains both
\* the error kind and the error message.
C12_LogHasKindAndMessage ==
    (lastMessage.Status = "Failed" /\ HasError(lastMessage)) =>
        /\ CountOp(effects, "wxLogError") = 1
        /\ effects[Len(effects)][1] = "wxLogError"
        /\ {lastMessage.Error.Type, lastMessage.Error.ErrorMessage}
               \subseteq LoggedText(effects)

\* C12 (amended): handling a Failed event with an error emits exactly one log
\* record, after every other call of that event, and the record contains the
\* error message (the error kind is not written).
C12_LogHasMessageLast ==
    (lastMessage.Status = "Failed" /\ HasError(lastMessage)) =>
        /\ CountOp(effects, "wxLogError") = 1
        /\ effects[Len(effects)][1] = "wxLogError"
        /\ LoggedText(effects) = {lastMessage.Error.ErrorMessage}

C12_Witness ==
    /\ LastFailedWith({"ProjectNotFound"})
    /\ Len(RecoveryPart(effects)) = 4
    /\ effects[Len(effects)] = Effect("wxLogError", lastMessage.Error.ErrorMessage)

\* C13 (as stated): a sync attempt requested by a recovery flow starts only
\* after the handler of the Failed event has finished, its log record included:
\* no call that starts a sync attempt precedes the log record of its event.
C13_SyncStartsAfterHandler ==
    \A i, j \in 1..Len(effects) :
        (StartsSyncAttempt(effects[i]) /\ effects[j][1] = "wxLogError") => j < i

\* C16: handling Failed{ProjectLimitReached | ProjectStorageLimitReached} shows
\* the limit prompt once; on 'visit' the wait dialog completes before
\* SaveToCloud(Normal) is requested and ResaveLocally is not called; on any other
\* choice ResaveLocally is called once and SaveToCloud(Normal) is requested
\* exactly when that resave fails.
C16_LimitFlow ==
    LastFailedWith({"ProjectLimitReached", "ProjectStorageLimitReached"}) =>
        /\ CountOp(effects, "ProjectLimitDialog") = 1
        /\ IF Effect("ProjectLimitDialog", "VisitAudioCom") \in EffectSet(effects)
           THEN /\ Ops(RecoveryPart(effects)) =
                      << "ProjectLimitDialog", "WaitForActionDialog",
                         "SaveToCloud", "wxLogError" >>
                /\ SaveToCloudModes(effects) = << "Normal" >>
           ELSE /\ CountOp(effects, "ResaveLocally") = 1
                /\ CountOp(effects, "WaitForActionDialog") = 0
                /\ IF Effect("ResaveLocally", FALSE) \in EffectSet(effects)
                   THEN SaveToCloudModes(effects) = << "Normal" >>
                   ELSE SaveToCloudModes(effects) = <<>>

C16_Witness ==
    /\ LastFailedWith({"ProjectStorageLimitReached"})
    /\ Effect("ProjectLimitDialog", "Cancel") \in EffectSet(effects)
    /\ Effect("ResaveLocally", FALSE) \in EffectSet(effects)
    /\ SaveToCloudModes(effects) = << "Normal" >>

\* C17: handling Failed{ProjectNotFound}: on 'save locally' ResaveLocally is
\* called once and SaveToCloud(SaveNew) is requested exactly when the resave
\* fails; on any other choice SaveToCloud(SaveNew) is requested once and
\* ResaveLocally is not called.
C17_NotFoundFlow ==
    LastFailedWith({"ProjectNotFound"}) =>
        /\ CountOp(effects, "NotCloudProjectDialog") = 1
        /\ IF Effect("NotCloudProjectDialog", "SaveLocally") \in EffectSet(effects)
           THEN /\ CountOp(effects, "ResaveLocally") = 1
                /\ IF Effect("ResaveLocally", FALSE) \in EffectSet(effects)
                   THEN SaveToCloudModes(effects) = << "SaveNew" >>
                   ELSE SaveToCloudModes(effects) = <<>>
           ELSE /\ CountOp(effects, "ResaveLocally") = 0
                /\ SaveToCloudModes(effects) = << "SaveNew" >>

C17_Witness ==
    /\ LastFailedWith({"ProjectNotFound"})
    /\ Effect("NotCloudProjectDialog", "SaveLocally") \in EffectSet(effects)
    /\ Effect("ResaveLocally", TRUE) \in EffectSet(effects)
    /\ SaveToCloudModes(effects) = <<>>

\* The ticks handed to Poll by the calls of the trace.
PollTicks(s) ==
    LET t == SelectSeq(s, LAMBDA e : e[1] = "Poll")
    IN  [i \in 1..Len(t) |-> t[i][2]]

PolledWith(result) == Effect("PollResult", result) \in EffectSet(effects)

\* round(p * 10000) for p = n / ProgressDen, halves rounded up.
RoundedTick(n) == (2 * n * PollTotal + ProgressDen) \div (2 * ProgressDen)

\* C14 (as stated): the tick handed to Poll for a progress value p equals
\* round(p * 10000).
C14_TickIsRounded ==
    \A i \in 1..Len(PollTicks(effects)) :
        PollTicks(effects)[i] = RoundedTick(mProgress)

TickIsTruncated ==
    \A i \in 1..Len(PollTicks(effects)) :
        LET tick == PollTicks(effects)[i]
        IN  /\ 0 <= tick
            /\ tick <= PollTotal
            /\ tick * ProgressDen <= mProgress * PollTotal
            /\ mProgress * PollTotal < (tick + 1) * ProgressDen

TicksNonDecreasing ==
    LET old == PollTicks(effects)
        new == PollTicks(effects')
    IN  (old # <<>> /\ new # <<>> /\ mProgress' >= mProgress)
            => new[1] >= old[1]

\* C14 (amended): the tick handed to Poll for a progress value p in [0,1] is
\* p * 10000 truncated to an integer (not rounded), at most 10000, and over
\* consecutive polls of one sync run with non-decreasing p the ticks are
\* non-decreasing.
C14_TickTruncatedMonotone == []TickIsTruncated /\ [][TicksNonDecreasing]_vars

C14_Witness ==
    /\ PolledWith("Success")
    /\ PollTicks(effects)[1] * ProgressDen < mProgress * PollTotal
    /\ PollTicks(effects)[1] # RoundedTick(mProgress)

\* C15 (as stated): no progress indicator exists once a non-syncing event has
\* been handled, once a poll has answered Cancelled, or once a poll has answered
\* Stopped.
C15_HandleReleased ==
    /\ lastMessage.Status \in {"Idle", "Succeeded", "Failed"} => ~mProgressDialog
    /\ PolledWith("Cancelled") => ~mProgressDialog
    /\ PolledWith("Stopped") => ~mProgressDialog

\* C18: the poll that answers Cancelled sets mClosingCancelled and drops the
\* indicator and does nothing else: mInSync stays as it was, mProgress is the
\* event's progress as after any poll, and no other call is made; every event
\* handled afterwards still sets mInSync to its syncing state and gets its
\* recovery and log.
C18_CancelOnlyCancelsWait ==
    /\ PolledWith("Cancelled") =>
           /\ mClosingCancelled
           /\ ~mProgressDialog
           /\ mInSync
           /\ prevInSync
           /\ PollTicks(effects) = << ScaledTick(mProgress) >>
           /\ Ops(effects) = << "Poll", "PollResult" >>
    /\ mClosingCancelled =>
           /\ mInSync = (lastMessage.Status = "Syncing")
           /\ (lastMessage.Status = "Failed" /\ HasError(lastMessage)) =>
                  /\ CountOp(effects, "wxLogError") = 1
                  /\ Len(MarkersOf(effects)) =
                         (IF lastMessage.Error.Type = "Cancelled" THEN 0 ELSE 1)
           /\ lastMessage.Status # "Failed" => RecoveryPart(effects) = <<>>

C18_Witness ==
    /\ mClosingCancelled
    /\ ~mInSync
    /\ LastFailedWith({"Network"})
    /\ CountOp(effects, "ConnectionIssuesDialog") = 1
    /\ CountOp(effects, "wxLogError") = 1

CancelledCallReturnsAtOnce ==
    (pc \in {"test", "yield", "returned"} /\ callInSync /\ callCancelled) =>
        /\ pc # "yield"
        /\ ~yielded
        /\ ~created
        /\ ~mProgressDialog
        /\ (pc = "returned" => retval = FALSE)

CancelledIsSticky ==
    /\ mClosingCancelled => mClosingCancelled'
    /\ (~mClosingCancelled /\ mClosingCancelled') =>
           Effect("PollResult", "Cancelled") \in EffectSet(effects')

\* C20: mClosingCancelled is set only by a poll that answers Cancelled and is
\* never cleared afterwards; a call of AllowClosing made while it is set and
\* mInSync is true returns false without making an indicator and without
\* reaching Yield.
C20_CancelledForGood ==
    []CancelledCallReturnsAtOnce /\ [][CancelledIsSticky]_vars

C20_Witness ==
    /\ pc = "returned"
    /\ callInSync
    /\ callCancelled
    /\ ~yielded
    /\ ~created
    /\ retval = FALSE

\* C19 (as stated): a status event delivered to the handler while the
\* announcement prompt is still open produces no second announcement, whatever
\* its state and whatever the save counter answers.
C19_NoSecondAnnouncement ==
    "ReentrantEvent" \in {effects[i][1] : i \in 1..Len(effects)} =>
        CountOp(effects, "SyncSuccessDialog") <= 1

====
